---- MODULE Spec2Model ----
(***************************************************************************)
(* A model of the wholesale spider of Findercode.py: the seed requests, the *)
(* parse callback, the per-block extraction with its defaults, the resale   *)
(* classifier, the trust score, and the SQLite store with its open          *)
(* transaction.  Texts are tuples of one-character strings, so that         *)
(* str.split, the `in` operator, int() and float() are computed on the      *)
(* characters as Python computes them.                                      *)
(***************************************************************************)
EXTENDS Integers, Sequences, FiniteSets, TLC

(* ------------------------------------------------------------------ text *)

\* Python's None: a missing element, a missing attribute, a failed extraction.
None == <<"None">>

\* The default of _get_text and _get_attribute.
NA == <<"N", "/", "A">>

DigitChars == <<"0", "1", "2", "3", "4", "5", "6", "7", "8", "9">>

Digits == {DigitChars[i] : i \in 1..10}

DigitVal(c) == (CHOOSE i \in 1..10 : DigitChars[i] = c) - 1

Whitespace == {" "}

SetMin(S) == CHOOSE x \in S : \A y \in S : x <= y

SetMax(S) == CHOOSE x \in S : \A y \in S : x >= y

\* str.strip(): the text without its leading and trailing whitespace.
PyStrip(s) ==
    LET keep == {i \in 1..Len(s) : s[i] \notin Whitespace}
    IN  IF keep = {} THEN <<>> ELSE SubSeq(s, SetMin(keep), SetMax(keep))

\* `needle in text` on strings: needle occurs as a contiguous substring.
Contains(needle, text) ==
    \E i \in 1..(Len(text) - Len(needle) + 1) :
        SubSeq(text, i, i + Len(needle) - 1) = needle

\* A run of decimal digits as int() and float() accept it: digits with single
\* underscores between them.
IsDigitRun(s) ==
    /\ s # <<>>
    /\ s[1] \in Digits
    /\ s[Len(s)] \in Digits
    /\ \A i \in 1..Len(s) : s[i] \in Digits \cup {"_"}
    /\ \A i \in 1..(Len(s) - 1) : ~(s[i] = "_" /\ s[i + 1] = "_")

OnlyDigits(s) == SelectSeq(s, LAMBDA c : c \in Digits)

RECURSIVE DigitsVal(_)
DigitsVal(s) ==
    IF s = <<>> THEN 0
    ELSE 10 * DigitsVal(SubSeq(s, 1, Len(s) - 1)) + DigitVal(s[Len(s)])

Unsigned(s) == IF s # <<>> /\ s[1] \in {"+", "-"} THEN Tail(s) ELSE s

IsNegative(s) == s # <<>> /\ s[1] = "-"

\* int(text): [err |-> TRUE] stands for ValueError, otherwise val is the integer.
PyInt(text) ==
    LET s    == PyStrip(text)
        body == Unsigned(s)
    IN  IF IsDigitRun(body)
        THEN [err |-> FALSE,
              val |-> IF IsNegative(s) THEN 0 - DigitsVal(OnlyDigits(body))
                      ELSE DigitsVal(OnlyDigits(body))]
        ELSE [err |-> TRUE, val |-> 0]

LowerOf(c) ==
    CASE c = "I" -> "i" [] c = "N" -> "n" [] c = "F" -> "f" [] c = "T" -> "t"
      [] c = "Y" -> "y" [] c = "A" -> "a" [] c = "E" -> "e" [] OTHER -> c

PyLower(s) == [i \in 1..Len(s) |-> LowerOf(s[i])]

\* The parts of a decimal literal: digits [. digits] [e [sign] digits].
ExpAt(s) == {i \in 1..Len(s) : s[i] \in {"e", "E"}}

Mantissa(s) == IF ExpAt(s) = {} THEN s ELSE SubSeq(s, 1, SetMin(ExpAt(s)) - 1)

Exponent(s) == IF ExpAt(s) = {} THEN <<>> ELSE SubSeq(s, SetMin(ExpAt(s)) + 1, Len(s))

DotAt(s) == {i \in 1..Len(s) : s[i] = "."}

IntPart(m) == IF DotAt(m) = {} THEN m ELSE SubSeq(m, 1, SetMin(DotAt(m)) - 1)

FracPart(m) == IF DotAt(m) = {} THEN <<>> ELSE SubSeq(m, SetMin(DotAt(m)) + 1, Len(m))

IsMantissa(m) ==
    /\ IntPart(m) = <<>> \/ IsDigitRun(IntPart(m))
    /\ FracPart(m) = <<>> \/ IsDigitRun(FracPart(m))
    /\ IntPart(m) # <<>> \/ FracPart(m) # <<>>

IsDecimal(s) ==
    /\ IsMantissa(Mantissa(s))
    /\ ExpAt(s) # {} => IsDigitRun(Unsigned(Exponent(s)))

\* float(text): [err |-> TRUE] stands for ValueError; otherwise kind is "nan", "inf"
\* or "num", neg the sign, and a "num" has the value mant * 10^exp10.  The literals
\* of the model have fewer than 17 significant digits, where the comparison of the
\* nearest double with 4.0 agrees with the comparison of the decimal value.
PyFloat(text) ==
    LET s    == PyStrip(text)
        body == Unsigned(s)
        m    == Mantissa(body)
        e    == Exponent(body)
        eVal == IF e = <<>> THEN 0
                ELSE IF IsNegative(e) THEN 0 - DigitsVal(OnlyDigits(Unsigned(e)))
                ELSE DigitsVal(OnlyDigits(Unsigned(e)))
    IN  IF PyLower(body) \in {<<"i", "n", "f">>, <<"i", "n", "f", "i", "n", "i", "t", "y">>}
        THEN [err |-> FALSE, kind |-> "inf", neg |-> IsNegative(s), mant |-> 0, nd |-> 0, exp10 |-> 0]
        ELSE IF PyLower(body) = <<"n", "a", "n">>
        THEN [err |-> FALSE, kind |-> "nan", neg |-> IsNegative(s), mant |-> 0, nd |-> 0, exp10 |-> 0]
        ELSE IF IsDecimal(body)
        THEN [err |-> FALSE, kind |-> "num", neg |-> IsNegative(s),
              mant |-> DigitsVal(OnlyDigits(IntPart(m) \o FracPart(m))),
              nd |-> Len(OnlyDigits(IntPart(m) \o FracPart(m))),
              exp10 |-> eVal - Len(OnlyDigits(FracPart(m)))]
        ELSE [err |-> TRUE, kind |-> "err", neg |-> FALSE, mant |-> 0, nd |-> 0, exp10 |-> 0]

RECURSIVE Pow10(_)
Pow10(n) == IF n = 0 THEN 1 ELSE 10 * Pow10(n - 1)

\* mant * 10^e > n for mant >= 1, e >= 0, n >= 0, without forming a large product.
RECURSIVE ScaledUpGreater(_, _, _)
ScaledUpGreater(mant, e, n) ==
    IF mant > n THEN TRUE
    ELSE IF e = 0 THEN FALSE
    ELSE ScaledUpGreater(10 * mant, e - 1, n)

\* mant / 10^k > n for a mantissa of nd digits, k >= 1, n >= 1.
ScaledDownGreater(mant, nd, k, n) ==
    /\ k < nd
    /\ \/ mant \div Pow10(k) > n
       \/ mant \div Pow10(k) = n /\ mant % Pow10(k) > 0

\* f > n for a float f and a positive integer n: NaN compares false, +inf true.
FloatGreater(f, n) ==
    CASE f.kind = "nan" -> FALSE
      [] f.kind = "inf" -> ~f.neg
      [] f.kind = "num" ->
            IF f.neg \/ f.mant = 0 THEN FALSE
            ELSE IF f.exp10 >= 0 THEN ScaledUpGreater(f.mant, f.exp10, n)
            ELSE ScaledDownGreater(f.mant, f.nd, 0 - f.exp10, n)
      [] OTHER -> FALSE

(* ------------------------------------------------------- product blocks *)

\* A product block (one div.product-card) is described by what each lookup of the
\* extractor finds in it: for every selector the raw text of the first matching
\* element, or None when no element matches.  The contact link is None (no
\* a.contact-link), NoHref (the element has no href attribute) or its href.
Selectors ==
    {"h2", "price", "contact", "address", "resale", "reviews", "rating", "years"}

NoHref == <<"NoHref">>

Block(h2, price, contact, address, resale, reviews, rating, years) ==
    [h2 |-> h2, price |-> price, contact |-> contact, address |-> address,
     resale |-> resale, reviews |-> reviews, rating |-> rating, years |-> years]

\* The block in which no lookup finds anything.
EmptyBlock == [s \in Selectors |-> None]

(* ------------------------------------------------------------ the spider *)

start_urls ==
    << <<"h", "t", "t", "p", "s", ":", "/", "/", "w", "w", "w", ".", "a", "l", "i", "b", "a", "b", "a", ".", "c", "o", "m", "/", "t", "r", "a", "d", "e", "/", "s", "e", "a", "r", "c", "h", "?", "f", "s", "b", "=", "y", "&", "I", "n", "d", "e", "x", "A", "r", "e", "a", "=", "p", "r", "o", "d", "u", "c", "t", "_", "e", "n", "&", "C", "a", "t", "I", "d", "=", "&", "S", "e", "a", "r", "c", "h", "T", "e", "x", "t", "=", "g", "p", "u">>,
       <<"h", "t", "t", "p", "s", ":", "/", "/", "w", "w", "w", ".", "w", "h", "o", "l", "e", "s", "a", "l", "e", "c", "e", "n", "t", "r", "a", "l", ".", "c", "o", "m", "/", "e", "l", "e", "c", "t", "r", "o", "n", "i", "c", "s", ".", "h", "t", "m">>,
       <<"h", "t", "t", "p", "s", ":", "/", "/", "w", "w", "w", ".", "d", "h", "g", "a", "t", "e", ".", "c", "o", "m", "/", "w", "h", "o", "l", "e", "s", "a", "l", "e", "/", "d", "r", "o", "n", "e", "s", ".", "h", "t", "m", "l">> >>

NumUrls == Len(start_urls)

\* found.get_text(strip=True) if found else "N/A"
_get_text(product, sel) ==
    IF product[sel] = None THEN NA ELSE PyStrip(product[sel])

\* found[attr] if found and attr in found.attrs else "N/A"
_get_attribute(product, sel) ==
    IF product[sel] = None \/ product[sel] = NoHref THEN NA ELSE product[sel]

ResaleApproved == "Resale Approved"
Restricted == "Restricted"
Unknown == "Unknown"

\* The classifier with the "No Resale" test ahead of the approval test.
_determine_resale_status_restricted_first(resale_terms) ==
    IF resale_terms = <<>> THEN Unknown
    ELSE IF Contains(<<"N", "o", " ", "R", "e", "s", "a", "l", "e">>, resale_terms) THEN Restricted
    ELSE IF Contains(<<"A", "u", "t", "h", "o", "r", "i", "z", "e", "d", " ", "R", "e", "s", "e", "l", "l", "e", "r">>, resale_terms)
            \/ Contains(<<"B", "u", "l", "k", " ", "O", "r", "d", "e", "r", "s", " ", "A", "l", "l", "o", "w", "e", "d">>, resale_terms)
    THEN ResaleApproved
    ELSE Unknown

_determine_resale_status(resale_terms) ==
    IF resale_terms = <<>> THEN Unknown
    ELSE IF Contains(<<"A", "u", "t", "h", "o", "r", "i", "z", "e", "d", " ", "R", "e", "s", "e", "l", "l", "e", "r">>, resale_terms)
            \/ Contains(<<"B", "u", "l", "k", " ", "O", "r", "d", "e", "r", "s", " ", "A", "l", "l", "o", "w", "e", "d">>, resale_terms)
    THEN ResaleApproved
    ELSE IF Contains(<<"N", "o", " ", "R", "e", "s", "a", "l", "e">>, resale_terms) THEN Restricted
    ELSE Unknown

\* The review score with >= 100 in place of > 100.
_score_reviews_at_least(product) ==
    LET reviews == _get_text(product, "reviews")
    IN  IF reviews # NA
        THEN IF PyInt(reviews).err THEN 0
             ELSE IF PyInt(reviews).val >= 100 THEN 3 ELSE 0
        ELSE 0

\* 3 if reviews != "N/A" and int(reviews) > 100 else 0; ValueError gives 0.
_score_reviews(product) ==
    LET reviews == _get_text(product, "reviews")
    IN  IF reviews # NA
        THEN IF PyInt(reviews).err THEN 0
             ELSE IF PyInt(reviews).val > 100 THEN 3 ELSE 0
        ELSE 0

\* 5 if rating != "N/A" and float(rating) > 4.0 else 0; ValueError gives 0.
_score_rating(product) ==
    LET rating == _get_text(product, "rating")
    IN  IF rating # NA
        THEN IF PyFloat(rating).err THEN 0
             ELSE IF FloatGreater(PyFloat(rating), 4) THEN 5 ELSE 0
        ELSE 0

\* 2 if years != "N/A" and int(years) > 5 else 0; ValueError gives 0.
_score_years_active(product) ==
    LET years == _get_text(product, "years")
    IN  IF years # NA
        THEN IF PyInt(years).err THEN 0
             ELSE IF PyInt(years).val > 5 THEN 2 ELSE 0
        ELSE 0

PyMin(a, b) == IF a <= b THEN a ELSE b

\* The trust score with the years-active part subtracted (-= for +=).
_calculate_trust_score_subtracting_years(product) ==
    LET score == 0 + _score_reviews(product) + _score_rating(product)
                   - _score_years_active(product)
    IN  PyMin(score, 10)

_calculate_trust_score(product) ==
    LET score == 0 + _score_reviews(product) + _score_rating(product)
                   + _score_years_active(product)
    IN  PyMin(score, 10)

\* url.split("/")[-1]: what follows the last "/" of the whole URL string.
LastSplit(url) ==
    LET slashes == {i \in 1..Len(url) : url[i] = "/"}
    IN  IF slashes = {} THEN url ELSE SubSeq(url, SetMax(slashes) + 1, Len(url))

\* The result of an extraction that raised AttributeError or TypeError.
NoItem == [none |-> TRUE]

\* A product that is no element (it has no find method, as None has none) makes the
\* first lookup raise AttributeError, which the extractor catches; every element
\* soup.select returns supports all the lookups.
NotAnElement == [element |-> FALSE]

_extract_product_data(product, url) ==
    IF product = NotAnElement THEN NoItem
    ELSE [category      |-> LastSplit(url),
          store_url     |-> url,
          store_name    |-> _get_text(product, "h2"),
          price         |-> _get_text(product, "price"),
          contact       |-> _get_attribute(product, "contact"),
          address       |-> _get_text(product, "address"),
          resale_status |-> _determine_resale_status(_get_text(product, "resale")),
          trust_score   |-> _calculate_trust_score(product)]

(* ---------------------------------------------------------- the pipeline *)

VARIABLES
    markup,      \* markup[u]: the product blocks soup.select finds in the page of start_urls[u]
    requests,    \* the seed URLs start_requests has yielded so far, in order
    inflight,    \* the requests that have no response yet
    cur,         \* the URL whose parse generator is running, 0 when none is
    blockIdx,    \* the position of that generator in its list of product blocks
    handled,     \* the URLs whose parse call has ended
    escaped,     \* the URLs whose parse call was ended by an exception
    hasCursor,   \* self.conn and self.cursor exist (sqlite3.connect succeeded)
    dbHasTable,  \* the database file holds the suppliers table
    table,       \* the committed rows of suppliers
    pending,     \* the rows of the connection's open, uncommitted transaction
    origin,      \* for each row of table \o pending, the call of _save_to_database
                 \* (its place in saves) that made it, 0 for a row of an earlier run
    initialRows, \* the number of rows the database file held at construction
    saves,       \* every call of _save_to_database with its outcome, in order
    emitted,     \* every item parse has yielded, in order
    log,         \* the messages passed to self.log
    faults,      \* the number of transient store errors so far
    closed,      \* close_spider has run
    call         \* the function call the function-level specification is looking at

pipeVars ==
    <<markup, requests, inflight, cur, blockIdx, handled, escaped, hasCursor,
      dbHasTable, table, pending, origin, initialRows, saves, emitted, log, faults,
      closed>>

vars == <<pipeVars, call>>

\* The most product blocks on one page and in the whole crawl, and the most
\* transient store errors in one run.
MaxBlocks == 2
MaxTotalBlocks == 2
MaxFaults == 1

\* Product blocks: nothing found at all; every element present with high figures;
\* an unparsable review count, a high rating and a low tenure; a long tenure only.
FullBlock ==
    Block(<<"A", "c", "m", "e">>, <<"$", "5">>, <<"/", "c">>, <<"1", " ", "R", "d">>, <<"A", "u", "t", "h", "o", "r", "i", "z", "e", "d", " ", "R", "e", "s", "e", "l", "l", "e", "r">>,
          <<"1", "5", "0">>, <<"4", ".", "5">>, <<"1", "0">>)

PartialBlock ==
    Block(<<"B", "o", "l", "t">>, None, NoHref, None, <<"N", "o", " ", "R", "e", "s", "a", "l", "e">>, <<"a", "b", "c">>, <<"4", ".", "5">>, <<"3">>)

VeteranBlock ==
    Block(None, None, None, None, None, None, None, <<" ", "1", "2", " ">>)

\* The product blocks the pages of the crawl are made of.
PageBlocks == {EmptyBlock, FullBlock, VeteranBlock}

SeqsUpTo(S, n) == UNION {[1..k -> S] : k \in 0..n}

Pages == SeqsUpTo(PageBlocks, MaxBlocks)

RECURSIVE TotalBlocks(_, _)
TotalBlocks(m, u) == IF u = 0 THEN 0 ELSE Len(m[u]) + TotalBlocks(m, u - 1)

Markups == {m \in [1..NumUrls -> Pages] : TotalBlocks(m, NumUrls) <= MaxTotalBlocks}

\* The item of block b of the page of start_urls[u].
ItemAt(m, u, b) == _extract_product_data(m[u][b], start_urls[u])

\* The row an INSERT of the item makes: the seven bound columns and the
\* AUTOINCREMENT id (date_scraped, the time of the insert, is left out).
RowOf(item, id) ==
    [id |-> id, category |-> item.category, store_name |-> item.store_name,
     price |-> item.price, contact |-> item.contact, address |-> item.address,
     resale_status |-> item.resale_status, trust_score |-> item.trust_score]

\* The rows an earlier run over the same markup left in the database file when no
\* store error occurred and the pages were handled in start_urls order.
RECURSIVE PriorRunRows(_, _, _)
PriorRunRows(m, u, rows) ==
    IF u > NumUrls THEN rows
    ELSE PriorRunRows(m, u + 1,
            rows \o [b \in 1..Len(m[u]) |-> RowOf(ItemAt(m, u, b), Len(rows) + b)])

InitMsg == "Database initialization error"
SaveMsg == "Database save error"
ExtractMsg == "Error extracting product data"
CloseMsg == "Database close error"

\* __init__ on a database file that is new or was left by an earlier run: connect
\* fails (no conn, no cursor), or CREATE TABLE IF NOT EXISTS fails, or both succeed.
Init ==
    /\ markup \in Markups
    /\ \E prior \in BOOLEAN, connectOk \in BOOLEAN, createOk \in BOOLEAN :
        /\ connectOk \/ ~createOk
        /\ prior => createOk
        /\ table = IF prior THEN PriorRunRows(markup, 1, <<>>) ELSE <<>>
        /\ hasCursor = connectOk
        /\ dbHasTable = (prior \/ createOk)
        /\ log = IF createOk THEN <<>> ELSE <<InitMsg>>
    /\ origin = [i \in 1..Len(table) |-> 0]
    /\ initialRows = Len(table)
    /\ requests = <<>>
    /\ inflight = {}
    /\ cur = 0
    /\ blockIdx = 0
    /\ handled = {}
    /\ escaped = {}
    /\ pending = <<>>
    /\ saves = <<>>
    /\ emitted = <<>>
    /\ faults = 0
    /\ closed = FALSE
    /\ call = [fn |-> "idle"]

\* start_requests going through start_urls from its end.
start_requests_last_first ==
    /\ ~closed
    /\ Len(requests) < NumUrls
    /\ requests' = Append(requests, NumUrls - Len(requests))
    /\ inflight' = inflight \cup {NumUrls - Len(requests)}
    /\ UNCHANGED <<markup, cur, blockIdx, handled, escaped, hasCursor, dbHasTable,
                   table, pending, origin, initialRows, saves, emitted, log, faults,
                   closed, call>>

\* start_requests: the next SplashRequest, in start_urls order.
start_requests ==
    /\ ~closed
    /\ Len(requests) < NumUrls
    /\ requests' = Append(requests, Len(requests) + 1)
    /\ inflight' = inflight \cup {Len(requests) + 1}
    /\ UNCHANGED <<markup, cur, blockIdx, handled, escaped, hasCursor, dbHasTable,
                   table, pending, origin, initialRows, saves, emitted, log, faults,
                   closed, call>>

\* A response arrives and parse is called with it: the markup is parsed and the
\* product blocks are selected.  Responses arrive in any order.
parse_begin(u) ==
    /\ ~closed
    /\ cur = 0
    /\ u \in inflight
    /\ inflight' = inflight \ {u}
    /\ cur' = u
    /\ blockIdx' = 1
    /\ UNCHANGED <<markup, requests, handled, escaped, hasCursor, dbHasTable,
                   table, pending, origin, initialRows, saves, emitted, log, faults,
                   closed, call>>

NextId == Len(table) + Len(pending) + 1

\* _save_to_database over a table that keeps one row for each content (INSERT OR
\* IGNORE under a uniqueness constraint): a successful save of a content the table
\* holds already adds nothing.
_save_to_database_ignoring_known_content(item, outcome) ==
    /\ hasCursor
    /\ outcome = "ok"
    /\ dbHasTable
    /\ LET known == \E i \in DOMAIN table :
                       [table[i] EXCEPT !.id = 0] = RowOf(item, 0)
       IN  /\ table' = IF known THEN table \o pending
                        ELSE table \o pending \o <<RowOf(item, NextId)>>
           /\ origin' = IF known THEN origin ELSE Append(origin, Len(saves) + 1)
    /\ pending' = <<>>
    /\ UNCHANGED <<log, faults>>

\* _save_to_database(item) on a spider that has a cursor.  The outcomes are: the
\* INSERT and the commit succeed; the INSERT raises sqlite3.Error; the commit raises
\* sqlite3.Error and the transaction stays open (the database is locked); the commit
\* raises sqlite3.Error and the transaction is rolled back.  Every error is logged.
_save_to_database(item, outcome) ==
    /\ hasCursor
    /\ \/ /\ outcome = "ok"
          /\ dbHasTable
          /\ table' = table \o pending \o <<RowOf(item, NextId)>>
          /\ pending' = <<>>
          /\ origin' = Append(origin, Len(saves) + 1)
          /\ UNCHANGED <<log, faults>>
       \/ /\ outcome = "insert_error"
          /\ ~dbHasTable \/ faults < MaxFaults
          /\ faults' = IF dbHasTable THEN faults + 1 ELSE faults
          /\ log' = Append(log, SaveMsg)
          /\ UNCHANGED <<table, pending, origin>>
       \/ /\ outcome = "commit_error_open"
          /\ dbHasTable
          /\ faults < MaxFaults
          /\ faults' = faults + 1
          /\ pending' = Append(pending, RowOf(item, NextId))
          /\ origin' = Append(origin, Len(saves) + 1)
          /\ log' = Append(log, SaveMsg)
          /\ UNCHANGED table
       \/ /\ outcome = "commit_error_rollback"
          /\ dbHasTable
          /\ faults < MaxFaults
          /\ faults' = faults + 1
          /\ pending' = <<>>
          /\ origin' = SubSeq(origin, 1, Len(table))
          /\ log' = Append(log, SaveMsg)
          /\ UNCHANGED table

SaveOutcomes == {"ok", "insert_error", "commit_error_open", "commit_error_rollback"}

\* One iteration of the loop of parse: extract, and if there is an item, save it,
\* print it and yield it.  Without a cursor _save_to_database raises AttributeError,
\* which it does not catch and parse does not either: the call of parse ends there.
parse_product ==
    /\ ~closed
    /\ cur # 0
    /\ blockIdx <= Len(markup[cur])
    /\ LET item == ItemAt(markup, cur, blockIdx)
           at   == [url |-> cur, idx |-> blockIdx, item |-> item]
           saved(outcome) ==
               [url |-> cur, idx |-> blockIdx, item |-> item, outcome |-> outcome]
       IN  IF item = NoItem
           THEN /\ log' = Append(log, ExtractMsg)
                /\ blockIdx' = blockIdx + 1
                /\ UNCHANGED <<cur, handled, escaped, table, pending, origin, saves,
                               emitted, faults>>
           ELSE \/ /\ ~hasCursor
                   /\ saves' = Append(saves, saved("AttributeError"))
                   /\ escaped' = escaped \cup {cur}
                   /\ handled' = handled \cup {cur}
                   /\ cur' = 0
                   /\ blockIdx' = 0
                   /\ UNCHANGED <<table, pending, origin, emitted, log, faults>>
                \/ \E outcome \in SaveOutcomes :
                   /\ _save_to_database(item, outcome)
                   /\ saves' = Append(saves, saved(outcome))
                   /\ emitted' = Append(emitted, at)
                   /\ blockIdx' = blockIdx + 1
                   /\ UNCHANGED <<cur, handled, escaped>>
    /\ UNCHANGED <<markup, requests, inflight, hasCursor, dbHasTable, initialRows,
                   closed, call>>

\* The loop of parse is exhausted and the generator returns.
parse_end ==
    /\ ~closed
    /\ cur # 0
    /\ blockIdx > Len(markup[cur])
    /\ handled' = handled \cup {cur}
    /\ cur' = 0
    /\ blockIdx' = 0
    /\ UNCHANGED <<markup, requests, inflight, escaped, hasCursor, dbHasTable,
                   table, pending, origin, initialRows, saves, emitted, log, faults,
                   closed, call>>

AllHandled == Len(requests) = NumUrls /\ inflight = {} /\ cur = 0

\* close_spider: commit and close.  A failing commit is logged and loses the open
\* transaction; without a connection the AttributeError is not caught.
close_spider ==
    /\ ~closed
    /\ AllHandled
    /\ closed' = TRUE
    /\ \/ /\ ~hasCursor
          /\ UNCHANGED <<table, pending, origin, log, faults>>
       \/ /\ hasCursor
          /\ table' = table \o pending
          /\ pending' = <<>>
          /\ UNCHANGED <<origin, log, faults>>
       \/ /\ hasCursor
          /\ faults < MaxFaults
          /\ faults' = faults + 1
          /\ pending' = <<>>
          /\ origin' = SubSeq(origin, 1, Len(table))
          /\ log' = Append(log, CloseMsg)
          /\ UNCHANGED table
    /\ UNCHANGED <<markup, requests, inflight, cur, blockIdx, handled, escaped,
                   hasCursor, dbHasTable, initialRows, saves, emitted, call>>

Next ==
    \/ start_requests
    \/ \E u \in 1..NumUrls : parse_begin(u)
    \/ parse_product
    \/ parse_end
    \/ close_spider

Spec == Init /\ [][Next]_vars

(* ------------------------------------------------ the functions by themselves *)

\* The texts the review-count, rating and years-active elements are given: None is
\* a missing element, the others are the raw text of the element.
ReviewTexts ==
    {None, <<"1", "5", "0">>, <<"1", "0", "1">>, <<"1", "0", "0">>, <<"9", "9">>, <<"a", "b", "c">>, <<>>, <<"N", "/", "A">>, <<"+", "1", "5", "0">>,
     <<"-", "1", "5", "0">>, <<"1", "_", "0", "0", "0">>, <<"1", "5", "0", ".", "5">>, <<" ", "1", "5", "0", " ">>, <<"1", "e", "3">>}

RatingTexts ==
    {None, <<"4", ".", "5">>, <<"4", ".", "0">>, <<"4">>, <<"4", ".", "0", "1">>, <<"5">>, <<"3", ".", "9">>, <<"a", "b", "c">>, <<>>, <<"N", "/", "A">>,
     <<"n", "a", "n">>, <<"i", "n", "f">>, <<"-", "i", "n", "f">>, <<"1", "e", "3">>, <<"4", "5", "e", "-", "1">>, <<".", "5">>, <<"5", ".">>, <<"-", "4", ".", "5">>,
     <<"4", ",", "5">>, <<" ", "4", ".", "5", " ">>}

YearsTexts ==
    {None, <<"1", "0">>, <<"6">>, <<"5">>, <<"3">>, <<"x">>, <<>>, <<"N", "/", "A">>, <<"5", ".", "5">>, <<"1", "0", "+">>}

ScoreProduct(reviews, rating, years) ==
    Block(None, None, None, None, None, reviews, rating, years)

ScoreProducts ==
    {ScoreProduct(r, g, y) : r \in ReviewTexts, g \in RatingTexts, y \in YearsTexts}

\* Resale policy texts: up to MaxFragments of these fragments, one after the other.
MaxFragments == 2

Fragments ==
    {<<"A", "u", "t", "h", "o", "r", "i", "z", "e", "d", " ", "R", "e", "s", "e", "l", "l", "e", "r">>, <<"B", "u", "l", "k", " ", "O", "r", "d", "e", "r", "s", " ", "A", "l", "l", "o", "w", "e", "d">>, <<"N", "o", " ", "R", "e", "s", "a", "l", "e">>,
     <<"A", "u", "t", "h", "o", "r", "i", "z", "e", "d">>, <<" ", "R", "e", "s", "e", "l", "l", "e", "r">>, <<"a", "u", "t", "h", "o", "r", "i", "z", "e", "d", " ", "r", "e", "s", "e", "l", "l", "e", "r">>, <<"N", "o", " ", "r", "e", "s", "a", "l", "e">>,
     <<" ", "f", "o", "r", " ", "b", "u", "l", "k">>, <<"N", "/", "A">>, <<" ">>}

RECURSIVE Concat(_)
Concat(ss) == IF ss = <<>> THEN <<>> ELSE Head(ss) \o Concat(Tail(ss))

ResaleTexts == {Concat(ss) : ss \in SeqsUpTo(Fragments, MaxFragments)}

\* Source URLs: the seed URLs, and one that ends in a slash.
SourceUrls ==
    {start_urls[u] : u \in 1..NumUrls} \cup {<<"h", "t", "t", "p", "s", ":", "/", "/", "w", "w", "w", ".", "d", "h", "g", "a", "t", "e", ".", "c", "o", "m", "/", "w", "h", "o", "l", "e", "s", "a", "l", "e", "/", "d", "r", "o", "n", "e", "s", "/">>}

ExtractProducts == PageBlocks \cup {PartialBlock, NotAnElement}

Idle == [fn |-> "idle"]

CallScore(product) ==
    /\ call = Idle
    /\ call' = [fn |-> "_calculate_trust_score", arg |-> product,
                ret |-> _calculate_trust_score(product)]
    /\ UNCHANGED pipeVars

CallResale(text) ==
    /\ call = Idle
    /\ call' = [fn |-> "_determine_resale_status", arg |-> text,
                ret |-> _determine_resale_status(text)]
    /\ UNCHANGED pipeVars

CallExtract(product, url) ==
    /\ call = Idle
    /\ call' = [fn |-> "_extract_product_data", arg |-> product, url |-> url,
                ret |-> _extract_product_data(product, url)]
    /\ UNCHANGED pipeVars

Return ==
    /\ call # Idle
    /\ call' = Idle
    /\ UNCHANGED pipeVars

FuncInit ==
    /\ markup = [u \in 1..NumUrls |-> <<>>]
    /\ requests = <<>>
    /\ inflight = {}
    /\ cur = 0
    /\ blockIdx = 0
    /\ handled = {}
    /\ escaped = {}
    /\ hasCursor = TRUE
    /\ dbHasTable = TRUE
    /\ table = <<>>
    /\ pending = <<>>
    /\ origin = <<>>
    /\ initialRows = 0
    /\ saves = <<>>
    /\ emitted = <<>>
    /\ log = <<>>
    /\ faults = 0
    /\ closed = FALSE
    /\ call = Idle

FuncNext ==
    \/ \E product \in ScoreProducts : CallScore(product)
    \/ \E text \in ResaleTexts : CallResale(text)
    \/ \E product \in ExtractProducts, url \in SourceUrls : CallExtract(product, url)
    \/ Return

FuncSpec == FuncInit /\ [][FuncNext]_vars

(* ------------------------------------------------------------ properties *)

Range(s) == {s[i] : i \in DOMAIN s}

IsPrefix(a, b) == Len(a) <= Len(b) /\ SubSeq(b, 1, Len(a)) = a

\* The place of a record in the crawl: its page and its block.
PlaceOf(e) == <<e.url, e.idx>>

\* e comes before f in source order: an earlier seed URL, or the same page and an
\* earlier block.
SourceBefore(e, f) == e.url < f.url \/ (e.url = f.url /\ e.idx < f.idx)

TextOf(product, sel) == IF product[sel] = None THEN None ELSE PyStrip(product[sel])

ParsesAsIntAbove(text, n) == text # None /\ ~PyInt(text).err /\ PyInt(text).val > n

ParsesAsNumberAbove(text, n) ==
    text # None /\ ~PyFloat(text).err /\ FloatGreater(PyFloat(text), n)

ReviewPart(product) == IF ParsesAsIntAbove(TextOf(product, "reviews"), 100) THEN 3 ELSE 0

RatingPart(product) == IF ParsesAsNumberAbove(TextOf(product, "rating"), 4) THEN 5 ELSE 0

YearsPart(product) == IF ParsesAsIntAbove(TextOf(product, "years"), 5) THEN 2 ELSE 0

\* C2: the trust score is min(10, r + g + y), with r = 3 iff the review count parses
\* as an integer above 100, g = 5 iff the rating parses as a number above 4.0 and
\* y = 2 iff the years active parse as an integer above 5, each part depending on its
\* own text only; reviews "abc", rating 4.5, years 3 give 5 and 150, 4.5, 10 give 10.
\* No text makes the extraction of an element fail, and the record carries that score.
ClampedSumOfParts(product) ==
    PyMin(10, ReviewPart(product) + RatingPart(product) + YearsPart(product))

C2_ScoreIsClampedSumOfParts ==
    /\ call.fn = "_calculate_trust_score" =>
          /\ call.ret = ClampedSumOfParts(call.arg)
          /\ call.arg = ScoreProduct(<<"a", "b", "c">>, <<"4", ".", "5">>, <<"3">>) => call.ret = 5
          /\ call.arg = ScoreProduct(<<"1", "5", "0">>, <<"4", ".", "5">>, <<"1", "0">>) => call.ret = 10
    /\ call.fn = "_extract_product_data" /\ call.arg # NotAnElement =>
          /\ call.ret # NoItem
          /\ call.ret.trust_score = ClampedSumOfParts(call.arg)

\* The score of reviews "abc", rating 4.5, years 3 has been computed and is 5.
C2_Witness ==
    /\ call.fn = "_calculate_trust_score"
    /\ call.arg = ScoreProduct(<<"a", "b", "c">>, <<"4", ".", "5">>, <<"3">>)
    /\ call.ret = 5

HasApproval(text) ==
    Contains(<<"A", "u", "t", "h", "o", "r", "i", "z", "e", "d", " ", "R", "e", "s", "e", "l", "l", "e", "r">>, text) \/ Contains(<<"B", "u", "l", "k", " ", "O", "r", "d", "e", "r", "s", " ", "A", "l", "l", "o", "w", "e", "d">>, text)

HasNoResale(text) == Contains(<<"N", "o", " ", "R", "e", "s", "a", "l", "e">>, text)

\* C3: the resale status of every text is one of the three statuses: Resale Approved
\* when the text holds an approval phrase, also when it holds "No Resale" as well;
\* Restricted when it holds "No Resale" and no approval phrase; Unknown otherwise,
\* the empty text and the default "N/A" included.
C3_ResaleClassification ==
    call.fn = "_determine_resale_status" =>
        /\ call.ret \in {ResaleApproved, Restricted, Unknown}
        /\ HasApproval(call.arg) => call.ret = ResaleApproved
        /\ HasNoResale(call.arg) /\ ~HasApproval(call.arg) => call.ret = Restricted
        /\ ~HasNoResale(call.arg) /\ ~HasApproval(call.arg) => call.ret = Unknown

\* A text with both "No Resale" and an approval phrase has been classified.
C3_Witness ==
    /\ call.fn = "_determine_resale_status"
    /\ HasApproval(call.arg)
    /\ HasNoResale(call.arg)
    /\ call.ret = ResaleApproved

Emitted(u, b) == {i \in DOMAIN emitted : PlaceOf(emitted[i]) = <<u, b>>}

Saved(u, b) == {i \in DOMAIN saves : PlaceOf(saves[i]) = <<u, b>>}

\* C4: when the store could not be initialized, no exception ends a call of parse,
\* and every product block of every handled page has its record emitted.
C4_StoreInitFailureNonFatal ==
    InitMsg \in Range(log) =>
        /\ escaped = {}
        /\ \A u \in handled : \A b \in 1..Len(markup[u]) : Emitted(u, b) # {}

StoreErrors == {"insert_error", "commit_error_open", "commit_error_rollback"}

\* C5: a record whose save ended in a store error has no row in the table, and no
\* record is handed to _save_to_database a second time.
C5_FailedSaveDropsRecord ==
    /\ \A i \in DOMAIN saves :
          saves[i].outcome \in StoreErrors =>
              \A r \in DOMAIN table : origin[r] # i
    /\ \A i \in DOMAIN saves : Saved(saves[i].url, saves[i].idx) = {i}

\* C6: a product block in which no sub-element is found gives exactly one record,
\* with "N/A" for the store name, price, contact and address, Unknown for the resale
\* status and 0 for the trust score, and that record is handed to the store and
\* emitted.
C6_EmptyBlockGivesDefaultRecord ==
    \A u \in handled : \A b \in 1..Len(markup[u]) :
        markup[u][b] = EmptyBlock =>
            /\ Cardinality(Saved(u, b)) = 1
            /\ Cardinality(Emitted(u, b)) = 1
            /\ \A i \in Emitted(u, b) :
                  /\ emitted[i].item.store_name = NA
                  /\ emitted[i].item.price = NA
                  /\ emitted[i].item.contact = NA
                  /\ emitted[i].item.address = NA
                  /\ emitted[i].item.resale_status = Unknown
                  /\ emitted[i].item.trust_score = 0

\* The columns of a row other than its id.
Content(row) == [c \in DOMAIN row \ {"id"} |-> row[c]]

Count(content, rows) == Cardinality({i \in DOMAIN rows : Content(rows[i]) = content})

NoStoreError == hasCursor /\ log = <<>>

\* C7: no step updates or deletes a row: the table only grows at its end; and a
\* crawl without a store error adds one row for each product block of the markup,
\* whatever the table holds already, so that after a second crawl of the same
\* markup every listing is in the table twice.
C7_AppendOnlyNoDedup ==
    [][/\ IsPrefix(table, table')
       /\ (AllHandled /\ NoStoreError)' =>
             /\ Len(table') = initialRows' + TotalBlocks(markup', NumUrls)
             /\ initialRows' > 0 =>
                   \A i \in DOMAIN table' :
                       Count(Content(table'[i]), table')
                         = 2 * Count(Content(table'[i]), PriorRunRows(markup', 1, <<>>))
      ]_vars

\* The second crawl of a markup with product blocks has ended without a store error
\* and the table has twice the rows of the first crawl.
C7_Witness ==
    /\ AllHandled
    /\ NoStoreError
    /\ initialRows > 0
    /\ Len(table) = 2 * initialRows

FirstAt(s, chars, from) ==
    LET at == {i \in from..Len(s) : s[i] \in chars}
    IN  IF at = {} THEN Len(s) + 1 ELSE SetMin(at)

AuthorityStart(url) ==
    LET at == {i \in 1..(Len(url) - 2) : SubSeq(url, i, i + 2) = <<":", "/", "/">>}
    IN  IF at = {} THEN 1 ELSE SetMin(at) + 3

UrlPath(url) ==
    LET start == FirstAt(url, {"/", "?", "#"}, AuthorityStart(url))
        stop  == FirstAt(url, {"?", "#"}, start)
    IN  SubSeq(url, start, stop - 1)

FinalPathSegment(url) == LastSplit(UrlPath(url))

\* C9: the category of a record is the final segment of the path of its source URL,
\* and holds no character of a query string.
C9_CategoryIsFinalPathSegment ==
    call.fn = "_extract_product_data" /\ call.ret # NoItem =>
        /\ call.ret.category = FinalPathSegment(call.url)
        /\ "?" \notin Range(call.ret.category)
        /\ "&" \notin Range(call.ret.category)

\* C10: every record the extractor returns is handed to the store exactly once and
\* emitted exactly once, whether or not the save succeeded: the emitted records are
\* the saved records, in the same order.
C10_EachRecordSavedOnceEmittedOnce ==
    /\ \A i \in DOMAIN saves : Saved(saves[i].url, saves[i].idx) = {i}
    /\ emitted = [i \in DOMAIN saves |->
                    [url |-> saves[i].url, idx |-> saves[i].idx, item |-> saves[i].item]]
====
